---- MODULE Spec2Model ----
(***************************************************************************)
(* State-machine model of examples/mnist.py of AutoOpt: the command-line   *)
(* parser get_args(), the model and optimizer dispatchers of main(), the   *)
(* epoch loop, train() and test().  The framework (PyTorch) and the        *)
(* AutoOpt optimizers are external: a forward pass, a loss value and a     *)
(* prediction are nondeterministic choices over what they can return.      *)
(* Control is single-threaded; pc is the statement about to execute.       *)
(***************************************************************************)
EXTENDS Integers, Sequences, FiniteSets, TLC

\* ---------------------------------------------------------------- bounds
\* Largest --epochs value explored (the flag is any int; default 1).
MaxEpochs == 2
\* Number of batches the training DataLoader yields in one pass.
NTrainBatches == 2
\* Number of samples of the held-out set.
NTest == 3
\* --test-batch-size (default 1000 in the source, scaled down with NTest).
TestBatchSize == 2
\* Largest --log-interval value explored (default 100 in the source).
MaxLogInterval == 2

\* ------------------------------------------------------- program constants
\* The --seed value that the help text documents as "no seed".
NoSeed == -1

\* choices= of --model, get_args().
ModelChoices == {"fc", "cnn"}

\* choices= of --optimizer, get_args().
OptimizerChoices ==
  {"sgd", "adam", "gauss-newton", "gn", "auto-sgd", "auto-adam",
   "auto-gauss-newton", "auto-gn"}

\* The optimizer names for which train() takes the plain nll_loss branch.
NativeLossOptimizers == {"sgd", "adam", "adagrad"}

\* The optimizer classes imported from autoopt.optim.
AutoOptOptimizers == {"GaussNewton", "AutoSGD", "AutoAdam", "AutoGaussNewton"}

\* ------------------------------------------------------------ input ranges
\* Values a user can type for --model: the two choices and a foreign one.
ModelValues == ModelChoices \cup {"rnn"}

\* Values a user can type for --optimizer: the choices and two foreign ones
\* ("adagrad" is the name train() lists but the parser does not offer).
OptimizerValues == OptimizerChoices \cup {"adagrad", "lbfgs"}

EpochValues == -1 .. MaxEpochs

SeedValues == {NoSeed, 7}

LogIntervalValues == 0 .. MaxLogInterval

\* What F.nll_loss(log_softmax(..)) can evaluate to: a finite number, NaN
\* (NaN weights or inputs) or +inf (the target's log-probability underflows
\* to -inf).  A mean of negated log-probabilities is never -inf.
LossValues == {"finite", "nan", "inf"}

TestSet == 1 .. NTest

\* Class indices (MNIST has ten; two are enough to be right or wrong).
Classes == {0, 1}

\* Label of a held-out sample.
Label(s) == s % 2

\* Marks "no prediction yet" for a sample in the current test pass.
NoPred == -1

\* model.loss_all before train() ever assigns it.
NoLossAll == <<>>

VARIABLES
  pc,             \* statement about to execute, or how the process ended
  args,           \* the argparse namespace (command-line values, then .cuda)
  cuda_available, \* torch.cuda.is_available()
  seeded,         \* calls made to seeding functions: {<<function, value>>}
  model,          \* class of the model object, "none" before construction
  training,       \* model.training
  loss_all,       \* model.loss_all: <<epoch, batch_idx>> of the batch stored
  optimizer,      \* class of the optimizer object, "none" before construction
  epoch,          \* loop variable of main()
  batch_idx,      \* loop variable of train()
  loss,           \* loss of the current training batch
  grad,           \* backward passes accumulated in .grad since zero_grad()
  steps,          \* optimizer.step() calls in the current training pass
  logged,         \* progress lines printed by train()
  batchLog,       \* calls made so far for the current training batch
  passes,         \* start/end of every train() and test() call, in order
  test_loss,      \* test(): batch losses summed (one unit per batch)
  correct,        \* test(): running count of correct predictions
  seen,           \* test(): times each held-out sample was yielded
  tbatch,         \* test(): samples of the batch in hand
  pred            \* test(): arg-max prediction made for each sample

vars ==
  <<pc, args, cuda_available, seeded, model, training, loss_all, optimizer,
    epoch, batch_idx, loss, grad, steps, logged, batchLog, passes,
    test_loss, correct, seen, tbatch, pred>>

mainVars == <<args, cuda_available, seeded, model, optimizer>>
trainVars == <<batch_idx, loss, grad, steps, logged, batchLog, loss_all>>
testVars == <<test_loss, correct, seen, tbatch, pred>>

\* The ways the process can end.
Terminal == {"done", "usage_error", "AutoOptError", "sys_exit", "ZeroDivisionError"}

Init ==
  /\ pc = "get_args"
  /\ args \in [model : ModelValues, optimizer : OptimizerValues,
               epochs : EpochValues, no_cuda : BOOLEAN, seed : SeedValues,
               log_interval : LogIntervalValues, cuda : {FALSE}]
  /\ cuda_available \in BOOLEAN
  /\ seeded = {}
  /\ model = "none"
  /\ training = TRUE
  /\ loss_all = NoLossAll
  /\ optimizer = "none"
  /\ epoch = 0
  /\ batch_idx = -1
  /\ loss = "none"
  /\ grad = 0
  /\ steps = 0
  /\ logged = 0
  /\ batchLog = <<>>
  /\ passes = <<>>
  /\ test_loss = 0
  /\ correct = 0
  /\ seen = [s \in TestSet |-> 0]
  /\ tbatch = {}
  /\ pred = [s \in TestSet |-> NoPred]

\* Variant: --model declared without choices=.
ParseAccepts_NoModelChoices(a) == a.optimizer \in OptimizerChoices

\* Variant: --optimizer declared without choices=.
ParseAccepts_NoOptimizerChoices(a) == a.model \in ModelChoices

\* ------------------------------------------------------------- get_args()
\* parser.parse_args(): argparse rejects a value that is not in choices=.
ParseAccepts(a) ==
  /\ a.model \in ModelChoices
  /\ a.optimizer \in OptimizerChoices

\* The seeding calls of get_args() for seed s with args.cuda = c.
SeedCalls(s, c) ==
  (IF s # NoSeed THEN {<<"torch.manual_seed", s>>} ELSE {})
    \cup (IF c THEN {<<"torch.cuda.manual_seed", s>>} ELSE {})

GetArgs ==
  /\ pc = "get_args"
  /\ IF ParseAccepts(args)
       THEN LET c == (~args.no_cuda) /\ cuda_available IN
            /\ args' = [args EXCEPT !.cuda = c]
            /\ seeded' = SeedCalls(args.seed, c)
            /\ pc' = "get_data"
       ELSE /\ pc' = "usage_error"
            /\ UNCHANGED <<args, seeded>>
  /\ UNCHANGED <<cuda_available, model, training, loss_all, optimizer, epoch,
                 batch_idx, loss, grad, steps, logged, batchLog, passes,
                 test_loss, correct, seen, tbatch, pred>>

\* ------------------------------------------------------------------ main()
GetData ==
  /\ pc = "get_data"
  /\ pc' = "model_dispatch"
  /\ UNCHANGED <<mainVars, training, epoch, passes, trainVars, testVars>>

\* The class main() constructs for a --model value, "none" when it raises.
ModelClass(m) ==
  IF m = "fc" THEN "FCNet" ELSE IF m = "cnn" THEN "CNN" ELSE "none"

ModelDispatch ==
  /\ pc = "model_dispatch"
  /\ IF ModelClass(args.model) # "none"
       THEN /\ model' = ModelClass(args.model)
            /\ training' = TRUE
            /\ pc' = "optimizer_dispatch"
       ELSE /\ pc' = "AutoOptError"
            /\ UNCHANGED <<model, training>>
  /\ UNCHANGED <<args, cuda_available, seeded, optimizer, epoch, passes,
                 trainVars, testVars>>

\* The class main() constructs for an --optimizer value, "none" when it raises.
OptimizerClass(o) ==
  IF o = "sgd" THEN "SGD"
  ELSE IF o = "auto-sgd" THEN "AutoSGD"
  ELSE IF o = "adam" THEN "Adam"
  ELSE IF o = "auto-adam" THEN "AutoAdam"
  ELSE IF o = "gauss-newton" \/ o = "gn" THEN "GaussNewton"
  ELSE IF o = "auto-gauss-newton" \/ o = "auto-gn" THEN "AutoGaussNewton"
  ELSE "none"

OptimizerDispatch ==
  /\ pc = "optimizer_dispatch"
  /\ IF OptimizerClass(args.optimizer) # "none"
       THEN /\ optimizer' = OptimizerClass(args.optimizer)
            /\ pc' = "epoch_loop"
       ELSE /\ pc' = "AutoOptError"
            /\ UNCHANGED optimizer
  /\ UNCHANGED <<args, cuda_available, seeded, model, training, epoch, passes,
                 trainVars, testVars>>

\* for epoch in range(1, args.epochs + 1)
EpochLoop ==
  /\ pc = "epoch_loop"
  /\ IF epoch < args.epochs
       THEN /\ epoch' = epoch + 1
            /\ pc' = "train"
       ELSE /\ pc' = "done"
            /\ UNCHANGED epoch
  /\ UNCHANGED <<mainVars, training, passes, trainVars, testVars>>

\* Variant: train() without the model.train() call.
TrainBegin_NoTrainMode ==
  /\ pc = "train"
  /\ batch_idx' = -1
  /\ steps' = 0
  /\ batchLog' = <<>>
  /\ passes' = Append(passes, <<"train_start", epoch>>)
  /\ pc' = "train_next"
  /\ UNCHANGED <<mainVars, training, epoch, loss, grad, logged, loss_all,
                 testVars>>

\* ----------------------------------------------------------------- train()
\* model.train(), then the for statement is entered.
TrainBegin ==
  /\ pc = "train"
  /\ training' = TRUE
  /\ batch_idx' = -1
  /\ steps' = 0
  /\ batchLog' = <<>>
  /\ passes' = Append(passes, <<"train_start", epoch>>)
  /\ pc' = "train_next"
  /\ UNCHANGED <<mainVars, epoch, loss, grad, logged, loss_all, testVars>>

\* for batch_idx, (data, target) in enumerate(train_loader): the next batch,
\* or the end of the pass and the return to main(), which calls test().
TrainNext ==
  /\ pc = "train_next"
  /\ IF batch_idx + 1 < NTrainBatches
       THEN /\ batch_idx' = batch_idx + 1
            /\ batchLog' = <<>>
            /\ loss' = "none"
            /\ pc' = "zero_grad"
            /\ UNCHANGED passes
       ELSE /\ passes' = Append(passes, <<"train_end", epoch>>)
            /\ pc' = "test"
            /\ UNCHANGED <<batch_idx, batchLog, loss>>
  /\ UNCHANGED <<mainVars, training, epoch, grad, steps, logged, loss_all,
                 testVars>>

\* Variant: the batch starts without clearing the gradients.
ZeroGrad_NoClear ==
  /\ pc = "zero_grad"
  /\ batchLog' = Append(batchLog, "zero_grad")
  /\ pc' = "forward"
  /\ UNCHANGED <<mainVars, training, epoch, passes, batch_idx, loss, grad,
                 steps, logged, loss_all, testVars>>

\* optimizer.zero_grad()
ZeroGrad ==
  /\ pc = "zero_grad"
  /\ grad' = 0
  /\ batchLog' = Append(batchLog, "zero_grad")
  /\ pc' = "forward"
  /\ UNCHANGED <<mainVars, training, epoch, passes, batch_idx, loss, steps,
                 logged, loss_all, testVars>>

\* output = model(data)
Forward ==
  /\ pc = "forward"
  /\ batchLog' = Append(batchLog, "forward")
  /\ pc' = "loss"
  /\ UNCHANGED <<mainVars, training, epoch, passes, batch_idx, loss, grad,
                 steps, logged, loss_all, testVars>>

\* Variant: the list of the loss branch also names "gn".
StoresLossAll_GnListed(o) == o \notin (NativeLossOptimizers \cup {"gn"})

\* The branch on args.optimizer: TRUE when train() stores the per-sample
\* losses in model.loss_all.
StoresLossAll(o) == o \notin NativeLossOptimizers

\* loss = F.nll_loss(...) or torch.mean(model.loss_all)
ComputeLoss ==
  /\ pc = "loss"
  /\ \E l \in LossValues : loss' = l
  /\ loss_all' = IF StoresLossAll(args.optimizer)
                   THEN <<epoch, batch_idx>> ELSE loss_all
  /\ batchLog' = Append(batchLog, "loss")
  /\ pc' = "nan_check"
  /\ UNCHANGED <<mainVars, training, epoch, passes, batch_idx, grad, steps,
                 logged, testVars>>

\* Variant: the guard tests for infinity instead of NaN.
IsNan_TestsInf(l) == l = "inf"

\* torch.isnan(loss): true of NaN only, false of both infinities.
IsNan(l) == l = "nan"

\* if torch.isnan(loss): sys.exit()
NanCheck ==
  /\ pc = "nan_check"
  /\ pc' = IF IsNan(loss) THEN "sys_exit" ELSE "backward"
  /\ UNCHANGED <<mainVars, training, epoch, passes, trainVars, testVars>>

\* loss.backward()
Backward ==
  /\ pc = "backward"
  /\ grad' = grad + 1
  /\ batchLog' = Append(batchLog, "backward")
  /\ pc' = "step"
  /\ UNCHANGED <<mainVars, training, epoch, passes, batch_idx, loss, steps,
                 logged, loss_all, testVars>>

\* optimizer.step()
Step ==
  /\ pc = "step"
  /\ steps' = steps + 1
  /\ batchLog' = Append(batchLog, "step")
  /\ pc' = "log"
  /\ UNCHANGED <<mainVars, training, epoch, passes, batch_idx, loss, grad,
                 logged, loss_all, testVars>>

\* if batch_idx % args.log_interval == 0: print(...).  The modulo raises
\* ZeroDivisionError when --log-interval is 0.
LogProgress ==
  /\ pc = "log"
  /\ IF args.log_interval = 0
       THEN /\ pc' = "ZeroDivisionError"
            /\ UNCHANGED logged
       ELSE /\ logged' = IF batch_idx % args.log_interval = 0
                           THEN logged + 1 ELSE logged
            /\ pc' = "train_next"
  /\ UNCHANGED <<mainVars, training, epoch, passes, batch_idx, loss, grad,
                 steps, batchLog, loss_all, testVars>>

\* Variant: the counters are kept across calls instead of starting at zero.
TestBegin_KeepCounters ==
  /\ pc = "test"
  /\ training' = FALSE
  /\ seen' = [s \in TestSet |-> 0]
  /\ tbatch' = {}
  /\ pred' = [s \in TestSet |-> NoPred]
  /\ passes' = Append(passes, <<"test_start", epoch>>)
  /\ pc' = "test_next"
  /\ UNCHANGED <<mainVars, epoch, trainVars, test_loss, correct>>

\* ------------------------------------------------------------------ test()
\* model.eval(); test_loss = 0; correct = 0; the loader starts a new pass.
TestBegin ==
  /\ pc = "test"
  /\ training' = FALSE
  /\ test_loss' = 0
  /\ correct' = 0
  /\ seen' = [s \in TestSet |-> 0]
  /\ tbatch' = {}
  /\ pred' = [s \in TestSet |-> NoPred]
  /\ passes' = Append(passes, <<"test_start", epoch>>)
  /\ pc' = "test_next"
  /\ UNCHANGED <<mainVars, epoch, trainVars>>

\* Samples the loader has not yielded in this pass.
Unseen == {s \in TestSet : seen[s] = 0}

\* Size of the next batch of the shuffled loader.
NextBatchSize ==
  IF Cardinality(Unseen) < TestBatchSize
    THEN Cardinality(Unseen) ELSE TestBatchSize

\* for data, target in test_loader (shuffle=True): any TestBatchSize samples
\* not yet yielded, fewer for the last batch; or the end of the loop.
TestNext ==
  /\ pc = "test_next"
  /\ IF Unseen # {}
       THEN /\ \E b \in SUBSET Unseen :
                 /\ Cardinality(b) = NextBatchSize
                 /\ tbatch' = b
                 /\ seen' = [s \in TestSet |->
                               IF s \in b THEN seen[s] + 1 ELSE seen[s]]
            /\ pc' = "test_forward"
       ELSE /\ pc' = "test_report"
            /\ UNCHANGED <<tbatch, seen>>
  /\ UNCHANGED <<mainVars, training, epoch, passes, trainVars, test_loss,
                 correct, pred>>

\* output = model(data); pred = output.data.max(1, keepdim=True)[1]
TestForward ==
  /\ pc = "test_forward"
  /\ \E p \in [tbatch -> Classes] :
       pred' = [s \in TestSet |-> IF s \in tbatch THEN p[s] ELSE pred[s]]
  /\ pc' = "test_accum"
  /\ UNCHANGED <<mainVars, training, epoch, passes, trainVars, test_loss,
                 correct, seen, tbatch>>

\* pred.eq(target.data.view_as(pred)).cpu().sum() for the batch in hand.
BatchCorrect == Cardinality({s \in tbatch : pred[s] = Label(s)})

\* test_loss += F.nll_loss(output, target); correct += pred.eq(...).sum()
TestAccumulate ==
  /\ pc = "test_accum"
  /\ test_loss' = test_loss + 1
  /\ correct' = correct + BatchCorrect
  /\ tbatch' = {}
  /\ pc' = "test_next"
  /\ UNCHANGED <<mainVars, training, epoch, passes, trainVars, seen, pred>>

\* test_loss /= len(test_loader.dataset); print(...); return to main().
TestReport ==
  /\ pc = "test_report"
  /\ passes' = Append(passes, <<"test_end", epoch>>)
  /\ pc' = "epoch_loop"
  /\ UNCHANGED <<mainVars, training, epoch, trainVars, testVars>>

\* ------------------------------------------------------------ specification
Next ==
  \/ GetArgs
  \/ GetData
  \/ ModelDispatch
  \/ OptimizerDispatch
  \/ EpochLoop
  \/ TrainBegin
  \/ TrainNext
  \/ ZeroGrad
  \/ Forward
  \/ ComputeLoss
  \/ NanCheck
  \/ Backward
  \/ Step
  \/ LogProgress
  \/ TestBegin
  \/ TestNext
  \/ TestForward
  \/ TestAccumulate
  \/ TestReport

Spec == Init /\ [][Next]_vars

\* ------------------------------------------------------------------ claims
\* C1 as stated: a run given a --model value outside {fc, cnn} ends with the
\* dispatcher of main() raising AutoOptError, no model constructed and no
\* training or test pass started.
C1_UnknownModelRaisesAutoOptError ==
  (args.model \notin {"fc", "cnn"} /\ pc \in Terminal)
    => (pc = "AutoOptError" /\ model = "none" /\ passes = <<>>)

\* C1 amended: a run given a --model value outside {fc, cnn} never leaves
\* get_args(): it ends in parser.parse_args() with argparse's usage error,
\* the dispatcher of main() is not reached, no model or optimizer is
\* constructed and no training or test pass is started.
C1_UnknownModelRejectedByParser ==
  args.model \notin {"fc", "cnn"}
    => /\ pc \in {"get_args", "usage_error"}
       /\ model = "none"
       /\ optimizer = "none"
       /\ passes = <<>>
       /\ steps = 0

C1_Witness ==
  /\ pc = "usage_error"
  /\ args.model = "rnn"
  /\ args.optimizer = "sgd"

\* C2 as stated: a run given an --optimizer value outside the eight choices
\* ends with the dispatcher of main() raising AutoOptError, no optimizer
\* constructed and no training or test pass started.
C2_UnknownOptimizerRaisesAutoOptError ==
  (args.optimizer \notin OptimizerChoices /\ pc \in Terminal)
    => (pc = "AutoOptError" /\ optimizer = "none" /\ passes = <<>>)

\* C2 amended: a run given an --optimizer value outside the eight choices
\* never leaves get_args(): it ends in parser.parse_args() with argparse's
\* usage error, the dispatcher of main() is not reached, no model or
\* optimizer is constructed and no training or test pass is started.
C2_UnknownOptimizerRejectedByParser ==
  args.optimizer \notin
      {"sgd", "adam", "gauss-newton", "gn", "auto-sgd", "auto-adam",
       "auto-gauss-newton", "auto-gn"}
    => /\ pc \in {"get_args", "usage_error"}
       /\ model = "none"
       /\ optimizer = "none"
       /\ passes = <<>>
       /\ steps = 0

C2_Witness ==
  /\ pc = "usage_error"
  /\ args.optimizer = "adagrad"
  /\ args.model = "cnn"

\* What stays as it is once train() has seen a NaN loss.
AfterNanUnchanged ==
  UNCHANGED <<grad, steps, logged, batch_idx, epoch, passes, batchLog,
              training, loss_all, test_loss, correct, seen, tbatch, pred>>

\* C3: once the loss of a batch is NaN the only thing that happens is the
\* exit: no backward(), no step(), no progress line, no further batch, no
\* test() pass and no further epoch; the process ends having run, for that
\* batch, zero_grad, the forward pass and the loss computation only.
C3_NanLossTerminates ==
  /\ [](pc = "sys_exit"
          => (loss = "nan" /\ grad = 0
              /\ batchLog = <<"zero_grad", "forward", "loss">>))
  /\ [][loss = "nan" => (pc' = "sys_exit" /\ AfterNanUnchanged)]_vars

C3_Witness ==
  /\ pc = "sys_exit"
  /\ loss = "nan"
  /\ epoch < args.epochs
  /\ batch_idx + 1 < NTrainBatches

\* TRUE when call c has been made for the current training batch.
Called(c) == \E i \in DOMAIN batchLog : batchLog[i] = c

\* C4 as stated: for a batch whose loss is not finite (NaN or an infinity)
\* neither loss.backward() nor optimizer.step() is executed.
C4_NoStepOnNonFiniteLoss ==
  loss \in {"nan", "inf"} => (~Called("backward") /\ ~Called("step"))

\* Batches needed to hold n samples.
BatchesFor(n) == (n + TestBatchSize - 1) \div TestBatchSize

\* Number of batches of one pass over the held-out set.
NTestBatches == BatchesFor(NTest)

\* Samples of the batches accumulated so far in this pass.
Accumulated == {s \in TestSet : seen[s] > 0} \ tbatch

\* C5: every call of test() counts from zero and its counters hold, at every
\* point of the pass, exactly the batches accumulated in this pass; when the
\* loop ends every held-out sample was visited exactly once, every batch was
\* summed once and correct is the number of samples predicted right in this
\* pass.
C5_TestPassRecomputed ==
  /\ pc \in {"test_next", "test_forward", "test_accum", "test_report"}
       => /\ correct = Cardinality({s \in Accumulated : pred[s] = Label(s)})
          /\ test_loss = BatchesFor(Cardinality(Accumulated))
  /\ pc = "test_report"
       => /\ \A s \in TestSet : seen[s] = 1
          /\ test_loss = NTestBatches
          /\ correct = Cardinality({s \in TestSet : pred[s] = Label(s)})

C5_Witness ==
  /\ pc = "test_report"
  /\ epoch = 2
  /\ correct = 0
  /\ test_loss = NTestBatches

\* C6 as stated: with --seed -1 get_args() makes no seeding call; with any
\* other seed the generators in use are seeded with it.
C6_NoSeedMeansNoSeedingCall ==
  pc \notin {"get_args", "usage_error"}
    => /\ args.seed = -1 => seeded = {}
       /\ args.seed # -1
            => /\ <<"torch.manual_seed", args.seed>> \in seeded
               /\ args.cuda => <<"torch.cuda.manual_seed", args.seed>> \in seeded

RECURSIVE ExpectedPasses(_)
\* The calls of a complete run of n epochs, in order.
ExpectedPasses(n) ==
  IF n <= 0 THEN <<>>
  ELSE ExpectedPasses(n - 1)
         \o <<<<"train_start", n>>, <<"train_end", n>>,
              <<"test_start", n>>, <<"test_end", n>>>>

\* TRUE when sequence a is an initial part of sequence b.
IsPrefix(a, b) ==
  /\ Len(a) <= Len(b)
  /\ \A i \in 1 .. Len(a) : a[i] = b[i]

\* C7 as stated: train(e) and test() alternate for e = 1 .. epochs, and a
\* run in which no loss is NaN ends normally after exactly `epochs` training
\* passes and `epochs` test passes (none for epochs <= 0).
C7_EpochIterationCompletes ==
  /\ IsPrefix(passes, ExpectedPasses(args.epochs))
  /\ (pc \in Terminal \ {"sys_exit", "usage_error"})
       => (pc = "done" /\ passes = ExpectedPasses(args.epochs))

\* The calls train() makes for one batch.
BatchOrder == <<"zero_grad", "forward", "loss", "backward", "step">>

\* Positions of train() at which the batch in hand has had its step.
AfterStep == {"log", "train_next", "ZeroDivisionError"}

\* Positions of train() at which the batch in hand has not had its step.
BeforeStep == {"zero_grad", "forward", "loss", "nan_check", "backward", "step",
               "sys_exit"}

\* C8: the calls made for a batch are always an initial part of zero_grad,
\* forward, loss, backward, step, and are all five once the step is done;
\* backward() always starts from cleared gradients and step() sees the
\* gradients of one backward pass; the steps taken in the pass equal the
\* batches processed.
C8_BatchStepOrder ==
  /\ IsPrefix(batchLog, BatchOrder)
  /\ pc \in {"log", "ZeroDivisionError"} => batchLog = BatchOrder
  /\ pc = "backward" => grad = 0
  /\ pc = "step" => grad = 1
  /\ pc \in AfterStep => steps = batch_idx + 1
  /\ pc \in BeforeStep => steps = batch_idx
  /\ pc \in {"test", "test_next", "test_report"} => steps = NTrainBatches

C8_Witness ==
  /\ pc = "log"
  /\ batch_idx = 1
  /\ steps = 2
  /\ batchLog = BatchOrder

\* C9: a training batch is forwarded only in training mode and a test batch
\* only in evaluation mode, in every epoch.
C9_ModeMatchesPass ==
  /\ pc = "forward" => training
  /\ pc = "test_forward" => ~training

C9_Witness ==
  /\ pc = "forward"
  /\ epoch = 2
  /\ training

\* C10: at every optimizer.step() the optimizer is one of the AutoOpt
\* optimizers exactly when model.loss_all holds the per-sample losses of the
\* batch in hand; with SGD and Adam model.loss_all is never set.
C10_LossBranchAgreesWithDispatch ==
  /\ pc = "step"
       => (optimizer \in AutoOptOptimizers <=> loss_all = <<epoch, batch_idx>>)
  /\ optimizer \in {"SGD", "Adam"} => loss_all = NoLossAll

C10_Witness ==
  /\ pc = "step"
  /\ optimizer = "GaussNewton"
  /\ args.optimizer = "gn"
  /\ loss_all = <<2, 1>>

====
